---- MODULE Spec2Model ----
(***************************************************************************)
(* A model of drugbank_downloader (src/src/drugbank_downloader/api.py):    *)
(* download_drugbank and the operations built on it (open_drugbank,        *)
(* parse_drugbank, get_drugbank_root), with the on-disk cache, the         *)
(* configuration, the version lookup and the zip/member handles as state.  *)
(* The program is sequential: one call is in progress at a time and `pc`   *)
(* is the line it has reached.                                             *)
(***************************************************************************)
EXTENDS Integers, Sequences, FiniteSets, TLC

\* ------------------------------------------------------------- values
\* Python's Optional[T]: None is the empty tuple, a value v is <<v>>.
None == << >>
Some(v) == <<v>>
IsNone(o) == o = << >>
Get(o) == o[1]

\* The number of calls (fresh calls and retries) followed in one behaviour.
MaxCalls == 2

\* api.py:137, the size below which a download is taken for the HTML page
\* DrugBank serves to an account that may not download.
Threshold == 5 * 1024 * 1024

\* Version strings are sequences of characters.  The two versions differ
\* only in "." versus "-", and each holds two separators.
VDot == <<"5", ".", "1", ".", "8">>
VDash == <<"5", "-", "1", "-", "8">>
Versions == {VDot, VDash}
VersionArgs == {None} \cup {Some(v) : v \in Versions}

\* Credentials passed as arguments and credentials found in the configuration
\* are different strings, so that the one used can be told from the other.
UsernameArgs == {None, Some("arg-user")}
PasswordArgs == {None, Some("arg-pass")}
ConfigUsernames == {None, Some("cfg-user")}
ConfigPasswords == {None, Some("cfg-pass")}

\* The prefix argument: None, one string, or a sequence of strings.
PrefixNone == [kind |-> "none", str |-> "", seq |-> << >>]
PrefixStr(s) == [kind |-> "str", str |-> s, seq |-> << >>]
PrefixSeq(q) == [kind |-> "seq", str |-> "", seq |-> q]
PrefixArgs == {PrefixNone, PrefixStr("alt")}
SeqPrefixArgs == {PrefixNone, PrefixSeq(<<"alt">>)}
PrefixDirs == {<<"drugbank">>, <<"alt">>}

\* ------------------------------------------------------------- files
\* An XML document is a sequence of tags: open, close or empty-element.
Open(t) == [tok |-> "open", tag |-> t]
Close(t) == [tok |-> "close", tag |-> t]
Empty(t) == [tok |-> "empty", tag |-> t]
DocMinimal == <<Empty("drugbank")>>
DocMismatch == <<Open("drugbank"), Close("drug")>>

\* A file on disk: its size in bytes, whether it is a zip archive, and the
\* "full database.xml" member of the archive when it has one.
File(s, z, m) == [size |-> s, zip |-> z, member |-> m]
HtmlPage == File(Threshold - 1, FALSE, None)
FullArchive == File(Threshold, TRUE, Some(DocMinimal))
BrokenArchive == File(Threshold + 1, TRUE, Some(DocMismatch))
SmallArchive == File(Threshold - 1, TRUE, Some(DocMinimal))
NoMemberArchive == File(Threshold, TRUE, None)
LargePage == File(Threshold + 1, FALSE, None)

\* What the server may send back for a download request.
Responses == {HtmlPage, SmallArchive, FullArchive, BrokenArchive, NoMemberArchive, LargePage}

\* A cache path <prefix...>/<version>/full database.xml.zip.
FileName == "full database.xml.zip"
MkPathHyphenated(prefix, version, name) ==
    [prefix |-> prefix,
     version |-> [i \in 1..Len(version) |-> IF version[i] = "." THEN "-" ELSE version[i]],
     name |-> name]
MkPath(prefix, version, name) == [prefix |-> prefix, version |-> version, name |-> name]
Paths == {MkPath(p, v, FileName) : p \in PrefixDirs, v \in Versions}

VARIABLES
    cache,      \* [Paths -> Optional file]: the files under the cache root
    config,     \* the configured drugbank username and password (Optional)
    installed,  \* whether bioversions can be imported
    pc,         \* the line the call in progress has reached
    op,         \* the public operation that was called
    args,       \* its arguments
    loc,        \* the locals of download_drugbank
    result,     \* what the call returned or raised
    net,        \* what the call in progress has done to the outside so far
    prev,       \* a retry's record of the call it repeats
    handles,    \* the zip archive and member stream of open_drugbank
    cache0,     \* the cache when the call in progress started
    calls       \* the number of calls made

vars == <<cache, config, installed, pc, op, args, loc, result, net, prev, handles, cache0, calls>>

\* ------------------------------------------------------------- helpers
\* str.replace(".", "-", 1): only the first "." becomes "-".
RECURSIVE ReplaceFirst(_)
ReplaceFirst(s) ==
    IF s = << >> THEN << >>
    ELSE IF Head(s) = "." THEN <<"-">> \o Tail(s)
    ELSE <<Head(s)>> \o ReplaceFirst(Tail(s))

\* str.replace(".", "-") of api.py:108: every "." becomes "-".
RECURSIVE Replace(_)
Replace(s) ==
    IF s = << >> THEN << >>
    ELSE <<IF Head(s) = "." THEN "-" ELSE Head(s)>> \o Replace(Tail(s))

\* api.py:107-109: the download URL of a version.
MakeUrl(version) ==
    <<"https://go.drugbank.com/releases/">> \o Replace(version) \o <<"/downloads/all-full-database">>

\* api.py:111-114: the prefix as a list of path segments.
NormalisePrefix(prefix) ==
    IF prefix.kind = "none" THEN <<"drugbank">>
    ELSE IF prefix.kind = "str" THEN <<prefix.str>>
    ELSE prefix.seq

GetConfigConfiguredFirst(passthrough, configured) ==
    IF ~IsNone(configured) THEN configured ELSE passthrough

\* pystow.get_config(..., passthrough=x, raise_on_missing=True) as called at
\* api.py:116-117: the argument when it is given, else the configured value;
\* None stands for the missing-configuration error.
GetConfig(passthrough, configured) ==
    IF ~IsNone(passthrough) THEN passthrough ELSE configured

EnsureIgnoresForce(exists, force) == ~exists

\* pystow.ensure(..., force=force) as called at api.py:119-130: it downloads
\* when the file is not there or when forced.
EnsureDownloads(exists, force) == force \/ ~exists

\* api.py:137: the size check.
TooSmallInclusive(size) == size <= Threshold
TooSmall(size) == size < Threshold

\* lxml's ElementTree.parse (api.py:49) on a document: the tag of the root
\* element of a well-formed document, None for a document that is not
\* well-formed.  `stack` holds the open elements, `root` the root seen so far.
RECURSIVE ParseFrom(_, _, _)
ParseFrom(doc, stack, root) ==
    IF doc = << >> THEN (IF stack = << >> THEN root ELSE None)
    ELSE LET t == Head(doc) IN
         IF t.tok = "close"
         THEN IF stack /= << >> /\ stack[Len(stack)] = t.tag
              THEN ParseFrom(Tail(doc), SubSeq(stack, 1, Len(stack) - 1), root)
              ELSE None
         ELSE IF stack = << >> /\ ~IsNone(root) THEN None
         ELSE ParseFrom(Tail(doc),
                        IF t.tok = "open" THEN Append(stack, t.tag) ELSE stack,
                        IF stack = << >> THEN Some(t.tag) ELSE root)
Parse(doc) == ParseFrom(doc, << >>, None)

\* ------------------------------------------------------------- frames
NoArgs == [username |-> None, password |-> None, version |-> None,
           prefix |-> PrefixNone, force |-> FALSE]
NoLoc == [version |-> None, url |-> None, prefix |-> << >>, username |-> None,
          password |-> None, path |-> None, file |-> None]
NoNet == [lookups |-> 0, credReads |-> 0, ensures |-> 0, transfers |-> 0,
          request |-> None, segments |-> None]
NoResult == [kind |-> "none", path |-> None, tag |-> None]
NoHandles == [zip |-> FALSE, member |-> FALSE, log |-> << >>, pending |-> "none"]
NoPrev == [kind |-> "none", path |-> None, force |-> FALSE, transfers |-> 0,
           existed |-> FALSE, username |-> None, password |-> None]

Returned(kind, path, tag) == [kind |-> kind, path |-> path, tag |-> tag]
Raised(kind) == [kind |-> kind, path |-> None, tag |-> None]

Init ==
    /\ cache = [p \in Paths |-> None]
    /\ config \in [username : ConfigUsernames, password : ConfigPasswords]
    /\ installed \in BOOLEAN
    /\ pc = "idle"
    /\ op = "none"
    /\ args = NoArgs
    /\ loc = NoLoc
    /\ result = NoResult
    /\ net = NoNet
    /\ prev = NoPrev
    /\ handles = NoHandles
    /\ cache0 = cache
    /\ calls = 0

\* ------------------------------------------------------------- calls
\* A caller calls one of the four public operations.  Only download_drugbank
\* takes force and a string prefix (api.py:25-74).
Begin(o, a) ==
    /\ calls < MaxCalls
    /\ calls' = calls + 1
    /\ pc' = "version"
    /\ op' = o
    /\ args' = a
    /\ loc' = NoLoc
    /\ result' = NoResult
    /\ net' = NoNet
    /\ handles' = NoHandles
    /\ cache0' = cache
    /\ UNCHANGED <<cache, config, installed>>

CallDownload ==
    /\ pc = "idle"
    /\ \E u \in UsernameArgs, p \in PasswordArgs, v \in VersionArgs, x \in PrefixArgs, f \in BOOLEAN :
          Begin("download_drugbank",
                [username |-> u, password |-> p, version |-> v, prefix |-> x, force |-> f])
    /\ prev' = NoPrev

CallOpen ==
    /\ pc = "idle"
    /\ \E o \in {"open_drugbank", "parse_drugbank", "get_drugbank_root"} :
       \E u \in UsernameArgs, p \in PasswordArgs, v \in VersionArgs, x \in SeqPrefixArgs :
          Begin(o, [username |-> u, password |-> p, version |-> v, prefix |-> x, force |-> FALSE])
    /\ prev' = NoPrev

\* The caller calls download_drugbank again with the same version and prefix
\* arguments, as after a failure; credentials and force may differ.
Retry ==
    /\ pc = "done"
    /\ op = "download_drugbank"
    /\ \E u \in UsernameArgs, p \in PasswordArgs, f \in BOOLEAN :
          Begin(op, [args EXCEPT !.username = u, !.password = p, !.force = f])
    /\ prev' = [kind |-> result.kind, path |-> loc.path, force |-> args.force,
                transfers |-> net.transfers,
                existed |-> ~IsNone(loc.path) /\ ~IsNone(cache0[Get(loc.path)]),
                username |-> args.username, password |-> args.password]

\* The caller is done with what the call returned or raised.
Idle ==
    /\ pc = "done"
    /\ pc' = "idle"
    /\ op' = "none"
    /\ args' = NoArgs
    /\ loc' = NoLoc
    /\ result' = NoResult
    /\ net' = NoNet
    /\ prev' = NoPrev
    /\ handles' = NoHandles
    /\ cache0' = cache
    /\ UNCHANGED <<cache, config, installed, calls>>

\* ------------------------------------------------- download_drugbank
Finish(r) ==
    /\ result' = r
    /\ pc' = "done"

ResolveVersionFallback ==
    /\ pc = "version"
    /\ IF ~IsNone(args.version)
       THEN /\ loc' = [loc EXCEPT !.version = args.version]
            /\ pc' = "url"
            /\ UNCHANGED <<result, net>>
       ELSE IF ~installed
       THEN /\ loc' = [loc EXCEPT !.version = Some(VDot)]
            /\ pc' = "url"
            /\ UNCHANGED <<result, net>>
       ELSE /\ net' = [net EXCEPT !.lookups = @ + 1]
            /\ \/ \E v \in Versions :
                    /\ loc' = [loc EXCEPT !.version = Some(v)]
                    /\ pc' = "url"
                    /\ UNCHANGED result
               \/ /\ Finish(Raised("LookupError"))
                  /\ UNCHANGED loc
    /\ UNCHANGED <<cache, config, installed, op, args, prev, handles, cache0, calls>>

\* api.py:97-105.
ResolveVersion ==
    /\ pc = "version"
    /\ IF ~IsNone(args.version)
       THEN /\ loc' = [loc EXCEPT !.version = args.version]
            /\ pc' = "url"
            /\ UNCHANGED <<result, net>>
       ELSE IF ~installed
       THEN /\ Finish(Raised("ImportError"))
            /\ UNCHANGED <<loc, net>>
       ELSE /\ net' = [net EXCEPT !.lookups = @ + 1]
            /\ \/ \E v \in Versions :
                    /\ loc' = [loc EXCEPT !.version = Some(v)]
                    /\ pc' = "url"
                    /\ UNCHANGED result
               \/ /\ Finish(Raised("LookupError"))
                  /\ UNCHANGED loc
    /\ UNCHANGED <<cache, config, installed, op, args, prev, handles, cache0, calls>>

\* api.py:107-114.
BuildUrl ==
    /\ pc = "url"
    /\ loc' = [loc EXCEPT !.url = Some(MakeUrl(Get(loc.version))),
                          !.prefix = NormalisePrefix(args.prefix)]
    /\ pc' = "username"
    /\ UNCHANGED <<cache, config, installed, op, args, result, net, prev, handles, cache0, calls>>

\* api.py:116.
GetUsername ==
    /\ pc = "username"
    /\ net' = [net EXCEPT !.credReads = @ + 1]
    /\ LET r == GetConfig(args.username, config.username) IN
       IF IsNone(r)
       THEN /\ Finish(Raised("ConfigError"))
            /\ UNCHANGED loc
       ELSE /\ loc' = [loc EXCEPT !.username = r]
            /\ pc' = "password"
            /\ UNCHANGED result
    /\ UNCHANGED <<cache, config, installed, op, args, prev, handles, cache0, calls>>

\* api.py:117.
GetPassword ==
    /\ pc = "password"
    /\ net' = [net EXCEPT !.credReads = @ + 1]
    /\ LET r == GetConfig(args.password, config.password) IN
       IF IsNone(r)
       THEN /\ Finish(Raised("ConfigError"))
            /\ UNCHANGED loc
       ELSE /\ loc' = [loc EXCEPT !.password = r]
            /\ pc' = "ensure"
            /\ UNCHANGED result
    /\ UNCHANGED <<cache, config, installed, op, args, prev, handles, cache0, calls>>

\* api.py:119-130: pystow.ensure with the prefix segments, the version, the
\* URL, the file name, the credentials and force.  When it downloads, the
\* response body is written to the path, over the file that was there,
\* whatever the status of the response; a transfer that fails leaves no file
\* at the path (pystow cleans up on failure) and the error propagates.
Ensure ==
    /\ pc = "ensure"
    /\ LET path == MkPath(loc.prefix, Get(loc.version), FileName)
           request == [url |-> Get(loc.url), auth |-> <<Get(loc.username), Get(loc.password)>>,
                       path |-> path]
           segments == loc.prefix \o <<"/">> \o Get(loc.version)
       IN  IF EnsureDownloads(~IsNone(cache[path]), args.force)
           THEN /\ net' = [net EXCEPT !.ensures = @ + 1, !.transfers = @ + 1,
                                      !.request = Some(request), !.segments = Some(segments)]
                /\ \/ \E r \in Responses :
                        /\ cache' = [cache EXCEPT ![path] = Some(r)]
                        /\ loc' = [loc EXCEPT !.path = Some(path)]
                        /\ pc' = "stat"
                        /\ UNCHANGED result
                   \/ /\ cache' = [cache EXCEPT ![path] = None]
                      /\ loc' = [loc EXCEPT !.path = Some(path)]
                      /\ Finish(Raised("TransferError"))
           ELSE /\ net' = [net EXCEPT !.ensures = @ + 1, !.segments = Some(segments)]
                /\ loc' = [loc EXCEPT !.path = Some(path)]
                /\ pc' = "stat"
                /\ UNCHANGED <<cache, result>>
    /\ UNCHANGED <<config, installed, op, args, prev, handles, cache0, calls>>

StatThenRaise ==
    /\ pc = "stat"
    /\ LET file == Get(cache[Get(loc.path)]) IN
       /\ loc' = [loc EXCEPT !.file = Some(file)]
       /\ pc' = IF TooSmall(file.size) THEN "raise" ELSE "return"
    /\ UNCHANGED <<cache, config, installed, op, args, result, net, prev, handles, cache0, calls>>

\* api.py:136-137.
Stat ==
    /\ pc = "stat"
    /\ LET file == Get(cache[Get(loc.path)]) IN
       /\ loc' = [loc EXCEPT !.file = Some(file)]
       /\ pc' = IF TooSmall(file.size) THEN "unlink" ELSE "return"
    /\ UNCHANGED <<cache, config, installed, op, args, result, net, prev, handles, cache0, calls>>

UnlinkSkipped ==
    /\ pc = "unlink"
    /\ pc' = "raise"
    /\ UNCHANGED <<cache, config, installed, op, args, loc, result, net, prev, handles, cache0, calls>>

\* api.py:138.
Unlink ==
    /\ pc = "unlink"
    /\ cache' = [cache EXCEPT ![Get(loc.path)] = None]
    /\ pc' = "raise"
    /\ UNCHANGED <<config, installed, op, args, loc, result, net, prev, handles, cache0, calls>>

\* api.py:139-158.
RaiseRuntimeError ==
    /\ pc = "raise"
    /\ Finish(Raised("RuntimeError"))
    /\ UNCHANGED <<cache, config, installed, op, args, loc, net, prev, handles, cache0, calls>>

\* api.py:160, and api.py:62 when open_drugbank made the call.
Return ==
    /\ pc = "return"
    /\ IF op = "download_drugbank"
       THEN Finish(Returned("path", loc.path, None))
       ELSE /\ pc' = "zip"
            /\ UNCHANGED result
    /\ UNCHANGED <<cache, config, installed, op, args, loc, net, prev, handles, cache0, calls>>

\* ----------------------------------------------------- open_drugbank
\* api.py:63: zipfile.ZipFile(path) raises BadZipFile on a file that is no
\* archive.
OpenZip ==
    /\ pc = "zip"
    /\ IF loc.file[1].zip
       THEN /\ handles' = [handles EXCEPT !.zip = TRUE]
            /\ pc' = "member"
            /\ UNCHANGED result
       ELSE /\ Finish(Raised("BadZipFile"))
            /\ UNCHANGED handles
    /\ UNCHANGED <<cache, config, installed, op, args, loc, net, prev, cache0, calls>>

\* api.py:64: zip_file.open("full database.xml") raises KeyError when the
\* archive has no such member; the error leaves the outer with block.
OpenMember ==
    /\ pc = "member"
    /\ IF ~IsNone(loc.file[1].member)
       THEN /\ handles' = [handles EXCEPT !.member = TRUE]
            /\ pc' = "block"
       ELSE /\ handles' = [handles EXCEPT !.pending = "KeyError"]
            /\ pc' = "close_zip"
    /\ UNCHANGED <<cache, config, installed, op, args, loc, result, net, prev, cache0, calls>>

BlockWithoutCleanup ==
    /\ pc = "block"
    /\ IF op = "open_drugbank"
       THEN \/ /\ handles' = [handles EXCEPT !.pending = "none"]
               /\ result' = Returned("stream", loc.path, None)
               /\ pc' = "close_member"
            \/ /\ handles' = [handles EXCEPT !.pending = "BlockError"]
               /\ Finish(Raised("BlockError"))
       ELSE LET root == Parse(Get(loc.file[1].member)) IN
            IF IsNone(root)
            THEN /\ handles' = [handles EXCEPT !.pending = "XMLSyntaxError"]
                 /\ Finish(Raised("XMLSyntaxError"))
            ELSE /\ handles' = [handles EXCEPT !.pending = "none"]
                 /\ result' = Returned("tree", loc.path, root)
                 /\ pc' = "close_member"
    /\ UNCHANGED <<cache, config, installed, op, args, loc, net, prev, cache0, calls>>

\* api.py:65: the stream is yielded and the caller's block runs.  The block
\* of a caller of open_drugbank ends normally or raises; the block of
\* parse_drugbank (api.py:48-50) parses the stream.
Block ==
    /\ pc = "block"
    /\ IF op = "open_drugbank"
       THEN \/ /\ handles' = [handles EXCEPT !.pending = "none"]
               /\ result' = Returned("stream", loc.path, None)
            \/ /\ handles' = [handles EXCEPT !.pending = "BlockError"]
               /\ UNCHANGED result
       ELSE LET root == Parse(Get(loc.file[1].member)) IN
            IF IsNone(root)
            THEN /\ handles' = [handles EXCEPT !.pending = "XMLSyntaxError"]
                 /\ UNCHANGED result
            ELSE /\ handles' = [handles EXCEPT !.pending = "none"]
                 /\ result' = Returned("tree", loc.path, root)
    /\ pc' = "close_member"
    /\ UNCHANGED <<cache, config, installed, op, args, loc, net, prev, cache0, calls>>

\* api.py:64: the inner with block is left.
CloseMember ==
    /\ pc = "close_member"
    /\ handles' = [handles EXCEPT !.member = FALSE, !.log = Append(@, "member")]
    /\ pc' = "close_zip"
    /\ UNCHANGED <<cache, config, installed, op, args, loc, result, net, prev, cache0, calls>>

\* api.py:63: the outer with block is left; a pending error propagates to
\* the caller, parse_drugbank returns the tree (api.py:51).
CloseZip ==
    /\ pc = "close_zip"
    /\ handles' = [handles EXCEPT !.zip = FALSE, !.log = Append(@, "zip")]
    /\ IF handles.pending /= "none"
       THEN Finish(Raised(handles.pending))
       ELSE IF op = "get_drugbank_root"
       THEN /\ pc' = "getroot"
            /\ UNCHANGED result
       ELSE Finish(result)
    /\ UNCHANGED <<cache, config, installed, op, args, loc, net, prev, cache0, calls>>

GetRootReturnsTree ==
    /\ pc = "getroot"
    /\ Finish(result)
    /\ UNCHANGED <<cache, config, installed, op, args, loc, net, prev, handles, cache0, calls>>

\* api.py:35: get_drugbank_root returns the root element of the tree.
GetRoot ==
    /\ pc = "getroot"
    /\ Finish(Returned("root", None, result.tag))
    /\ UNCHANGED <<cache, config, installed, op, args, loc, net, prev, handles, cache0, calls>>

Next ==
    \/ CallDownload
    \/ CallOpen
    \/ Retry
    \/ Idle
    \/ ResolveVersion
    \/ BuildUrl
    \/ GetUsername
    \/ GetPassword
    \/ Ensure
    \/ Stat
    \/ Unlink
    \/ RaiseRuntimeError
    \/ Return
    \/ OpenZip
    \/ OpenMember
    \/ Block
    \/ CloseMember
    \/ CloseZip
    \/ GetRoot

Spec == Init /\ [][Next]_vars

\* The same program started on a cache into which an archive holding the
\* minimal document has been put, under the default prefix: an archive of
\* any size, as small as the document makes it or padded to the threshold.
PopulatedPath == MkPath(<<"drugbank">>, VDot, FileName)
InitPopulated ==
    /\ \E f \in {SmallArchive, FullArchive} :
          cache = [q \in Paths |-> IF q = PopulatedPath THEN Some(f) ELSE None]
    /\ config \in [username : ConfigUsernames, password : ConfigPasswords]
    /\ installed \in BOOLEAN
    /\ pc = "idle"
    /\ op = "none"
    /\ args = NoArgs
    /\ loc = NoLoc
    /\ result = NoResult
    /\ net = NoNet
    /\ prev = NoPrev
    /\ handles = NoHandles
    /\ cache0 = cache
    /\ calls = 0

SpecPopulated == InitPopulated /\ [][Next]_vars

\* ------------------------------------------------------------- claims
AtRest == pc \in {"idle", "done"}
Present(p) == ~IsNone(cache[p])
Stated == ~IsNone(loc.file)

\* C1: whenever no call is in progress, every cache path either holds no file
\* or holds a file of at least 5*1024*1024 bytes; no undersized file stays on
\* disk after a call has returned or raised.
C1_CacheInvariant ==
    AtRest => \A p \in Paths : Present(p) => Get(cache[p]).size >= 5 * 1024 * 1024

\* C1 witness: a second call has fetched an undersized file and raised, while
\* the file of an earlier call is still cached.
C1_Witness ==
    /\ pc = "done"
    /\ calls = 2
    /\ result.kind = "RuntimeError"
    /\ net.transfers = 1
    /\ Get(loc.file).size = 5 * 1024 * 1024 - 1
    /\ \E p \in Paths : Present(p)

\* C2: when download_drugbank has ended after looking at the size s of the
\* file: if s < 5*1024*1024 the file is gone, the call raised the
\* unapproved-account RuntimeError and returned no path; if s >= 5*1024*1024
\* the file is still in place and the call returned its path.
C2_SizeThreshold ==
    (pc = "done" /\ op = "download_drugbank" /\ Stated) =>
        LET s == Get(loc.file).size
            path == Get(loc.path)
        IN  /\ s < 5 * 1024 * 1024 =>
                /\ result.kind = "RuntimeError"
                /\ IsNone(result.path)
                /\ ~Present(path)
            /\ s >= 5 * 1024 * 1024 =>
                /\ result.kind = "path"
                /\ result.path = Some(path)
                /\ cache[path] = loc.file

\* C2 witness: a file of exactly 5*1024*1024 bytes passes, in the retry of a
\* call that raised on a file one byte smaller.
C2_Witness ==
    /\ pc = "done"
    /\ op = "download_drugbank"
    /\ prev.kind = "RuntimeError"
    /\ result.kind = "path"
    /\ Get(loc.file).size = 5 * 1024 * 1024

\* C3: the file is deleted before the RuntimeError is raised, and the next
\* call for the same prefix and version, once it is at the cache path of the
\* call that failed, has performed a new transfer, with force or without: it
\* looks at and returns only a file it has transferred itself.
C3_RetryAfterFailure ==
    /\ (pc = "raise" \/ (pc = "done" /\ result.kind = "RuntimeError")) =>
            ~Present(Get(loc.path))
    /\ (prev.kind = "RuntimeError" /\ loc.path = prev.path) => net.transfers = 1

\* C3 witness: a retry without force after a RuntimeError has transferred the
\* file again and returned its path.
C3_Witness ==
    /\ pc = "done"
    /\ prev.kind = "RuntimeError"
    /\ ~args.force
    /\ loc.path = prev.path
    /\ net.transfers = 1
    /\ result.kind = "path"

\* A retry with the arguments of the call it repeats, neither call forced.
SameArguments ==
    /\ prev.kind /= "none"
    /\ prev.username = args.username
    /\ prev.password = args.password
    /\ ~prev.force
    /\ ~args.force

MissingCredential ==
    \/ IsNone(args.username) /\ IsNone(config.username)
    \/ IsNone(args.password) /\ IsNone(config.password)

\* The credential a call is to use: the argument when given, else the
\* configured one.
Expected(argument, configured) == IF argument /= None THEN argument ELSE configured

\* C5 as claimed: a call that lacks a credential ends with the
\* missing-configuration error, whether a version was given or not, with no
\* transfer made and the cache as it was.
C5_MissingConfigurationAlways ==
    (pc = "done" /\ MissingCredential) =>
        /\ result.kind = "ConfigError"
        /\ net.transfers = 0
        /\ cache = cache0

\* C5 as amended: the username and password sent with a transfer are the
\* arguments when they are given, whatever is configured; a call that lacks a
\* credential makes no transfer and leaves the cache as it was, and once its
\* version is resolved (given, or looked up successfully) it ends with the
\* missing-configuration error before the caching utility is called; with no
\* version given the lookup comes first, so the call can end with the
\* lookup's error instead.
C5_CredentialPrecedence ==
    /\ ~IsNone(net.request) =>
            Get(net.request).auth = <<Get(Expected(args.username, config.username)),
                                      Get(Expected(args.password, config.password))>>
    /\ MissingCredential =>
            /\ net.transfers = 0
            /\ net.ensures = 0
            /\ cache = cache0
    /\ (pc = "done" /\ MissingCredential) =>
            result.kind = (IF ~IsNone(loc.version) THEN "ConfigError"
                           ELSE IF installed THEN "LookupError" ELSE "ImportError")

\* C5 witness: a transfer made with the username from the argument, while
\* another username is configured, and the password from the configuration.
C5_Witness ==
    /\ ~IsNone(net.request)
    /\ args.username = Some("arg-user")
    /\ config.username = Some("cfg-user")
    /\ IsNone(args.password)
    /\ Get(net.request).auth = <<"arg-user", "cfg-pass">>

\* The version with every "." replaced by "-", character by character.
Hyphenated(v) == [i \in 1..Len(v) |-> IF v[i] = "." THEN "-" ELSE v[i]]

\* C6: with a version given, the lookup is never invoked, the cache path
\* segment handed to the caching utility is the version unchanged, and the URL
\* is https://go.drugbank.com/releases/<v>/downloads/all-full-database with
\* every dot of the version replaced by a hyphen; with no version given and
\* bioversions installed, each call invokes the lookup once.
C6_VersionResolution ==
    /\ ~IsNone(args.version) =>
            /\ net.lookups = 0
            /\ ~IsNone(loc.version) => loc.version = args.version
            /\ ~IsNone(net.segments) =>
                    Get(net.segments) = loc.prefix \o <<"/">> \o Get(args.version)
            /\ ~IsNone(loc.path) => Get(loc.path).version = Get(args.version)
    /\ ~IsNone(loc.url) =>
            Get(loc.url) = <<"https://go.drugbank.com/releases/">>
                           \o Hyphenated(Get(loc.version))
                           \o <<"/downloads/all-full-database">>
    /\ ~IsNone(net.request) =>
            /\ Get(net.request).url = Get(loc.url)
            /\ Get(net.request).path.version = Get(loc.version)
    /\ (IsNone(args.version) /\ pc \notin {"idle", "version"}) =>
            net.lookups = (IF installed THEN 1 ELSE 0)

\* C6 witness: the second call in a row has downloaded the dotted version it
\* was given, from the hyphenated URL, into the dotted cache path.
C6_Witness ==
    /\ calls = 2
    /\ args.version = Some(VDot)
    /\ ~IsNone(net.request)
    /\ Get(net.request).url = <<"https://go.drugbank.com/releases/", "5", "-", "1", "-", "8",
                                "/downloads/all-full-database">>
    /\ Get(net.request).path.version = <<"5", ".", "1", ".", "8">>

\* C7: when open_drugbank's block has been left, normally or by an error,
\* neither the archive nor the member stream is open; the member stream is
\* never open without the archive, and it is closed before the archive.
C7_ResourceCleanup ==
    /\ AtRest => (~handles.zip /\ ~handles.member)
    /\ handles.member => handles.zip
    /\ handles.log \in {<< >>, <<"member">>, <<"zip">>, <<"member", "zip">>}
    /\ (pc = "done" /\ result.kind \in {"stream", "tree", "root", "BlockError", "XMLSyntaxError"}) =>
            handles.log = <<"member", "zip">>
    /\ (pc = "done" /\ result.kind = "KeyError") => handles.log = <<"zip">>

\* C7 witness: the caller's block raised inside open_drugbank, and the member
\* stream and then the archive were closed.
C7_Witness ==
    /\ pc = "done"
    /\ op = "open_drugbank"
    /\ result.kind = "BlockError"
    /\ handles.log = <<"member", "zip">>
    /\ ~handles.zip
    /\ ~handles.member

\* The file that was cached for the call's path when the call started is an
\* archive whose member is the minimal document.
CachedMinimal ==
    /\ ~IsNone(loc.path)
    /\ ~IsNone(cache0[Get(loc.path)])
    /\ Get(cache0[Get(loc.path)]).zip
    /\ Get(cache0[Get(loc.path)]).member = Some(<<Empty("drugbank")>>)

\* C8 as claimed: get_drugbank_root on a cache that holds such an archive for
\* the requested version (the version and the credentials resolving) returns
\* the root element with tag drugbank, makes no transfer and leaves the
\* archive in place.
C8_AnyCachedArchive ==
    (pc = "done" /\ op = "get_drugbank_root" /\ CachedMinimal) =>
        /\ result.kind = "root"
        /\ result.tag = Some("drugbank")
        /\ net.transfers = 0
        /\ cache[Get(loc.path)] = cache0[Get(loc.path)]

\* C8 as amended: the same, for a cached archive of at least 5*1024*1024
\* bytes; a smaller one is deleted and the call raises the RuntimeError,
\* also without a transfer.
C8_EndToEnd ==
    (pc = "done" /\ op = "get_drugbank_root" /\ CachedMinimal) =>
        IF Get(cache0[Get(loc.path)]).size >= 5 * 1024 * 1024
        THEN /\ result.kind = "root"
             /\ result.tag = Some("drugbank")
             /\ net.transfers = 0
             /\ cache[Get(loc.path)] = cache0[Get(loc.path)]
        ELSE /\ result.kind = "RuntimeError"
             /\ net.transfers = 0
             /\ ~Present(Get(loc.path))

\* C8 witness: the first call, on the archive that was put into the cache,
\* returned the root element drugbank without a transfer.
C8_Witness ==
    /\ pc = "done"
    /\ calls = 1
    /\ op = "get_drugbank_root"
    /\ CachedMinimal
    /\ result.kind = "root"
    /\ result.tag = Some("drugbank")
    /\ net.transfers = 0
    /\ Present(Get(loc.path))

\* C9: a call with no version, bioversions not being installed, ends at once
\* with the ImportError: no credential has been looked up, no lookup and no
\* transfer made, the caching utility not called, the cache as it was and
\* nothing opened; a call with a version never raises the ImportError.
C9_UnavailableDependency ==
    /\ (IsNone(args.version) /\ ~installed /\ pc \notin {"idle", "version"}) =>
            /\ pc = "done"
            /\ result.kind = "ImportError"
            /\ net = NoNet
            /\ cache = cache0
            /\ handles = NoHandles
    /\ ~IsNone(args.version) => result.kind /= "ImportError"

\* C9 witness: get_drugbank_root with no version and no credentials at all
\* ended with the ImportError.
C9_Witness ==
    /\ pc = "done"
    /\ op = "get_drugbank_root"
    /\ IsNone(args.version)
    /\ ~installed
    /\ MissingCredential
    /\ result.kind = "ImportError"

\* C10: a call changes no cache file but the one at
\* <prefix...>/<version>/full database.xml.zip for its own prefix and version.
C10_PerVersionIsolation ==
    \A p \in Paths :
        cache[p] /= cache0[p] =>
            /\ ~IsNone(loc.version)
            /\ p.version = Get(loc.version)
            /\ p.prefix = (IF args.prefix.kind = "none" THEN <<"drugbank">>
                           ELSE IF args.prefix.kind = "str" THEN <<args.prefix.str>>
                           ELSE args.prefix.seq)
            /\ p.name = "full database.xml.zip"

\* C10 witness: a call for 5.1.8 raised the RuntimeError and deleted its file
\* while the file of 5-1-8, which has the same URL, stays cached under the
\* same prefix.
C10_Witness ==
    /\ pc = "done"
    /\ result.kind = "RuntimeError"
    /\ loc.version = Some(VDot)
    /\ net.transfers = 1
    /\ Present(MkPath(loc.prefix, VDash, FileName))
    /\ ~Present(MkPath(loc.prefix, VDot, FileName))

====
